---- MODULE Spec2Model ----
(***************************************************************************)
(* Render-graph pass runtime of agz-utils (d3d12 graph).                   *)
(*                                                                         *)
(* PassRuntime::execute and PassContext are modelled from                  *)
(* src/src/graphics_api/d3d12/graph/passRuntime.cpp.  The graph compiler,  *)
(* the Runtime's pass loop and the Runtime's resource resolution are not   *)
(* part of the available sources; they are modelled from spec.md (4.1,     *)
(* 4.2, 6) and marked as such.                                             *)
(***************************************************************************)
EXTENDS Integers, Sequences, FiniteSets, TLC

\* ------------------------------------------------------------------ bounds
NumPasses == 2
MaxFrame == 1
MaxTrans == 2
MaxRaceTrans == 1

\* resource indices registered with the graph; the declarations drawn for a
\* compiled graph use the resources of UsedResources, the other one stays
\* undeclared in every pass
Resources == {1, 2}
UsedResources == {1}
Frames == 0..MaxFrame
Threads == {1, 2}
\* the caller of the serialized executions
SerialCallers == {1}

\* resource states (a sample of D3D12_RESOURCE_STATES)
States == {"COMMON", "RENDER_TARGET"}
NoState == "NONE"
AllSubresources == "ALL"

VARIABLES
    extInit,        \* declaration: resource -> external initial state
    extFinal,       \* declaration: resource -> external final state or NoState
    usages,         \* declaration: pass -> (resource -> required state or NoState)
    transitions,    \* PassRuntime::transitions_, one list per compiled pass
    known,          \* Runtime: the resource indices it can resolve
    resources,      \* PassContext::resources_, one usage map per compiled pass
    entryBarriers,  \* PassRuntime::entryBarriers_, per pass (mutable scratch)
    exitBarriers,   \* PassRuntime::exitBarriers_, per pass (mutable scratch)
    runtimeFrame,   \* frame whose physical instances the Runtime resolves to
    pc,             \* per caller: position inside Runtime.execute / PassRuntime::execute
    pass,           \* per caller: index of the pass being executed
    idx,            \* per caller: index of the transition loop (line 31)
    frameIndex,     \* per caller: frameIndex argument of execute
    cmdList,        \* per caller: what its command recorder received
    ret,            \* per caller: outcome of the PassContext call the body made
    history,        \* a completed execution kept for reference: its frame and batches
    interfered      \* per caller: another caller stepped since this call began

vars == <<extInit, extFinal, usages, transitions, resources, known, entryBarriers,
          exitBarriers, runtimeFrame, pc, pass, idx, frameIndex, cmdList, ret,
          history, interfered>>

graphVars == <<extInit, extFinal, usages, transitions, resources, known>>

\* ------------------------------------------------------- values and helpers
NoValue == <<>>
Handle(r, f) == <<"resource", r, f>>
Descriptor(p, r) == <<"descriptor", p, r>>
FrameValue(f) == <<"frame", f>>

StateTransition(r, b, m, e) ==
    [resource |-> r, subrsc |-> AllSubresources, beg |-> b, mid |-> m, end |-> e]

NoCall == [call |-> "none", res |-> 0, outcome |-> "ok", value |-> NoValue]
NoHistory == [set |-> FALSE, frame |-> 0, again |-> FALSE, log |-> <<>>]

RECURSIVE Concat(_)
Concat(ss) == IF ss = <<>> THEN <<>> ELSE Head(ss) \o Concat(Tail(ss))

\* ------------------------------------------------ compiler (from spec 4.1)
\* required state of the next pass after p that touches r, NoState if none
RECURSIVE NextRequired(_, _, _)
NextRequired(us, r, p) ==
    IF p >= Len(us) THEN NoState
    ELSE IF us[p + 1][r] # NoState THEN us[p + 1][r]
    ELSE NextRequired(us, r, p + 1)

\* mutant: every record ends in its own mid state, no closing transition
EndStateOwnMid(us, ef, r, p) == us[p][r]

\* end state of pass p's record for r: the next toucher's required state,
\* else the declared external final state, else the pass's own mid state
EndState(us, ef, r, p) ==
    LET nxt == NextRequired(us, r, p)
    IN  IF nxt # NoState THEN nxt
        ELSE IF ef[r] # NoState THEN ef[r]
        ELSE us[p][r]

\* walk the passes p..n for resource r with the current-state cursor;
\* yields one entry per pass: <<record>> if the pass touches r, <<>> if not
RECURSIVE WalkResource(_, _, _, _, _)
WalkResource(us, ef, r, p, cursor) ==
    IF p > Len(us) THEN <<>>
    ELSE IF us[p][r] = NoState
         THEN << <<>> >> \o WalkResource(us, ef, r, p + 1, cursor)
         ELSE LET e == EndState(us, ef, r, p)
              IN  << <<StateTransition(r, cursor, us[p][r], e)>> >>
                      \o WalkResource(us, ef, r, p + 1, e)

Compile(us, ei, ef) ==
    [p \in 1..Len(us) |->
        Concat([r \in Resources |-> WalkResource(us, ef, r, 1, ei[r])[p]])]

\* usage map handed to the PassContext of pass p: declared resource -> slot
CompileUsages(us) ==
    [p \in 1..Len(us) |->
        [r \in {q \in Resources : us[p][q] # NoState} |->
            [descriptorSlot |-> Descriptor(p, r)]]]

\* ------------------------------------------- Runtime (from spec 4.2 and 6)
\* Runtime::getRawResource(resource): the physical instance for the frame
\* the Runtime is currently bound to
Runtime_getRawResource(r) == Handle(r, runtimeFrame)

\* the resolution of a resource fails when the Runtime does not know its index
Runtime_knows(r) == r \in known

\* --------------------------------------------- PassRuntime::execute pieces
\* mutant: the scratch list is not cleared
ClearScratchKeep(list) == list

\* lines 28-29
ClearScratch(list) == <<>>

\* mutant: the entry filter is dropped
NeedsEntryAlways(rt) == TRUE

\* mutant: the entry filter compares beg with end
NeedsEntryWrongField(rt) == rt.beg # rt.end

\* line 33
NeedsEntry(rt) == rt.beg # rt.mid

\* mutant: the exit filter compares beg with end
NeedsExitWrongField(rt) == rt.beg # rt.end

\* line 39
NeedsExit(rt) == rt.mid # rt.end

\* CD3DX12_RESOURCE_BARRIER::Transition(resource, before, after, subresource)
Transition(h, before, after, sub) ==
    [resource |-> h, before |-> before, after |-> after, subrsc |-> sub]

\* mutant: the entry barrier uses the physical instance of frame 0
PushEntryFirstFrame(list, rt) ==
    IF NeedsEntry(rt)
    THEN Append(list, Transition(Handle(rt.resource, 0), rt.beg, rt.mid, rt.subrsc))
    ELSE list

\* mutant: only the entry barrier resolves the handle of its resource
ResolvedByEntryOnly(rt) == IF NeedsEntry(rt) THEN {rt.resource} ELSE {}

\* lines 33-43: the resources whose handle one iteration of the loop asks the
\* Runtime for (the calls sit inside the two filtered branches)
ResolvedBy(rt) == IF NeedsEntry(rt) \/ NeedsExit(rt) THEN {rt.resource} ELSE {}

\* lines 33-37
PushEntry(list, rt) ==
    IF NeedsEntry(rt)
    THEN Append(list, Transition(Runtime_getRawResource(rt.resource),
                                 rt.beg, rt.mid, rt.subrsc))
    ELSE list

\* lines 39-43
PushExit(list, rt) ==
    IF NeedsExit(rt)
    THEN Append(list, Transition(Runtime_getRawResource(rt.resource),
                                 rt.mid, rt.end, rt.subrsc))
    ELSE list

\* mutant: the body is invoked before the entry barriers are submitted
StatementAfterBodyFirst(pos) ==
    CASE pos = "clear" -> "populate"
      [] pos = "populate" -> "body"
      [] pos = "body" -> "entry"
      [] pos = "entry" -> "exit"
      [] OTHER -> "return"

\* lines 28-64: the order of the statements of execute
StatementAfter(pos) ==
    CASE pos = "clear" -> "populate"
      [] pos = "populate" -> "entry"
      [] pos = "entry" -> "body"
      [] pos = "body" -> "exit"
      [] OTHER -> "return"

\* mutant: the emptiness test is dropped
ShouldSubmitAlways(list) == TRUE

\* lines 46, 59
ShouldSubmit(list) == list # <<>>

\* cmdList->ResourceBarrier(size, data): one batched barrier command
ResourceBarrier(log, list, p, side) ==
    Append(log, [kind |-> "barrier", pass |-> p, side |-> side, batch |-> list])

\* lines 46-51
SubmitEntry(log, list, p) ==
    IF ShouldSubmit(list) THEN ResourceBarrier(log, list, p, "entry") ELSE log

\* lines 59-64
SubmitExit(log, list, p) ==
    IF ShouldSubmit(list) THEN ResourceBarrier(log, list, p, "exit") ELSE log

\* mutant: the callback is invoked twice
InvokeCallbackTwice(log, p) ==
    Append(Append(log, [kind |-> "body", pass |-> p, side |-> "body", batch |-> <<>>]),
           [kind |-> "body", pass |-> p, side |-> "body", batch |-> <<>>])

\* line 57
InvokeCallback(log, p) ==
    Append(log, [kind |-> "body", pass |-> p, side |-> "body", batch |-> <<>>])

\* mutant: a pass that declared descriptors fails unless its body fetched one
AfterCallbackFetchRequired(c, p) ==
    IF c.outcome = "throw" \/ (DOMAIN resources[p] # {} /\ c.call # "getDescriptor")
    THEN "failed"
    ELSE StatementAfter("body")

\* mutant: an exception of the body is swallowed
AfterCallbackCaught(c, p) == StatementAfter("body")

\* lines 57-59: no handler around the callback; an exception of the body
\* (outcome "throw" of the call c it made in pass p) leaves execute
AfterCallback(c, p) ==
    IF c.outcome = "throw" THEN "failed" ELSE StatementAfter("body")

\* ------------------------------------------------------------- PassContext
\* mutant: a missing usage yields a default descriptor instead of an exception
PassContext_getDescriptorDefault(p, r) ==
    [call |-> "getDescriptor", res |-> r, outcome |-> "ok",
     value |-> IF r \in DOMAIN resources[p] THEN resources[p][r].descriptorSlot
               ELSE NoValue]

\* mutant: a declared resource gets the slot of the first entry of the map
PassContext_getDescriptorFirst(p, r) ==
    IF r \notin DOMAIN resources[p]
    THEN [call |-> "getDescriptor", res |-> r, outcome |-> "throw", value |-> NoValue]
    ELSE [call |-> "getDescriptor", res |-> r, outcome |-> "ok",
          value |-> resources[p][CHOOSE q \in DOMAIN resources[p] :
                                    \A o \in DOMAIN resources[p] : q <= o].descriptorSlot]

\* lines 112-121
PassContext_getDescriptor(p, r) ==
    IF r \notin DOMAIN resources[p]
    THEN [call |-> "getDescriptor", res |-> r, outcome |-> "throw", value |-> NoValue]
    ELSE [call |-> "getDescriptor", res |-> r, outcome |-> "ok",
          value |-> resources[p][r].descriptorSlot]

\* mutant: getRawResource checks the usage set like getDescriptor does
PassContext_getRawResourceChecked(p, r) ==
    IF r \in DOMAIN resources[p]
    THEN [call |-> "getRawResource", res |-> r, outcome |-> "ok",
          value |-> Runtime_getRawResource(r)]
    ELSE [call |-> "getRawResource", res |-> r, outcome |-> "throw", value |-> NoValue]

\* lines 107-110
PassContext_getRawResource(p, r) ==
    [call |-> "getRawResource", res |-> r, outcome |-> "ok",
     value |-> Runtime_getRawResource(r)]

\* lines 92-95
PassContext_getFrameIndex(f) ==
    [call |-> "getFrameIndex", res |-> 0, outcome |-> "ok", value |-> FrameValue(f)]

\* ------------------------------------------------------------------- Init
InitCalls ==
    /\ runtimeFrame = 0
    /\ pc = [t \in Threads |-> "idle"]
    /\ pass = [t \in Threads |-> 0]
    /\ idx = [t \in Threads |-> 0]
    /\ frameIndex = [t \in Threads |-> 0]
    /\ cmdList = [t \in Threads |-> <<>>]
    /\ ret = [t \in Threads |-> NoCall]
    /\ history = NoHistory
    /\ interfered = [t \in Threads |-> FALSE]

\* declarations of up to NumPasses passes over the resources of UsedResources
Declarations ==
    UNION {[1..n -> {u \in [Resources -> States \cup {NoState}] :
                        \A r \in Resources \ UsedResources : u[r] = NoState}]
           : n \in 0..NumPasses}

ExternalInits ==
    {ei \in [Resources -> States] :
        \A r \in Resources \ UsedResources : ei[r] = "COMMON"}

ExternalFinals ==
    {ef \in [Resources -> States \cup {NoState}] :
        \A r \in Resources \ UsedResources : ef[r] = NoState}

\* a graph compiled from a declaration
Init ==
    /\ usages \in Declarations
    /\ extInit \in ExternalInits
    /\ extFinal \in ExternalFinals
    /\ transitions = Compile(usages, extInit, extFinal)
    /\ resources = CompileUsages(usages)
    /\ known = Resources
    /\ entryBarriers = [p \in 1..Len(usages) |-> <<>>]
    /\ exitBarriers = [p \in 1..Len(usages) |-> <<>>]
    /\ InitCalls

\* transition lists a PassRuntime can be constructed with (constructor,
\* lines 8-22: the list is stored as given)
TransitionRecords ==
    {StateTransition(r, b, m, e) : r \in Resources, b \in States, m \in States,
                                   e \in States}

TransitionLists(maxLen) ==
    UNION {[1..n -> TransitionRecords] : n \in 0..maxLen}

\* usage map of a pass built around a transition list: the resources it names
UsagesOf(p, ts) ==
    [r \in {ts[i].resource : i \in DOMAIN ts} |-> [descriptorSlot |-> Descriptor(p, r)]]

\* a graph of one PassRuntime constructed with the transition list ts, on a
\* Runtime that knows the resource indices of kn
InitOn(ts, kn) ==
    /\ usages = <<>>
    /\ extInit = [r \in Resources |-> "COMMON"]
    /\ extFinal = [r \in Resources |-> NoState]
    /\ transitions = <<ts>>
    /\ resources = <<UsagesOf(1, ts)>>
    /\ known = kn
    /\ entryBarriers = <<(<<>>)>>
    /\ exitBarriers = <<(<<>>)>>
    /\ InitCalls

InitWith(ts) == InitOn(ts, Resources)

InitPass == \E ts \in TransitionLists(MaxTrans) : InitWith(ts)

InitRace == \E ts \in TransitionLists(MaxRaceTrans) : InitWith(ts)

InitResolve ==
    \E ts \in TransitionLists(MaxTrans) : \E kn \in SUBSET Resources : InitOn(ts, kn)

\* ---------------------------------------------------------------- actions
InFlight(t) == pc[t] \in {"clear", "populate", "entry", "body", "exit"}

\* every step of caller t is seen by the callers that are inside a call
Interfere(t) ==
    interfered' = [u \in Threads |->
                      IF u = t THEN interfered[t] ELSE interfered[u] \/ InFlight(u)]

Batches(log) == SelectSeq(log, LAMBDA e : e.kind = "barrier")

\* an execution for frame f completed: any one completed execution is kept
\* as the reference, and a later execution for its frame is noted
Completed(f, log) ==
    IF history.set
    THEN history' = [history EXCEPT !.again = @ \/ (history.frame = f)]
    ELSE history' \in {history,
                       [set |-> TRUE, frame |-> f, again |-> FALSE, log |-> Batches(log)]}

\* Runtime.execute(frameIndex, recorder): start of the pass loop
RuntimeExecute(t, f) ==
    /\ pc[t] \in {"idle", "done", "failed"}
    /\ frameIndex' = [frameIndex EXCEPT ![t] = f]
    /\ runtimeFrame' = f
    /\ cmdList' = [cmdList EXCEPT ![t] = <<>>]
    /\ ret' = [ret EXCEPT ![t] = NoCall]
    /\ idx' = [idx EXCEPT ![t] = 0]
    /\ interfered' = [u \in Threads |->
                        IF u = t THEN FALSE ELSE interfered[u] \/ InFlight(u)]
    /\ IF Len(transitions) = 0
       THEN /\ pc' = [pc EXCEPT ![t] = "done"]
            /\ pass' = [pass EXCEPT ![t] = 0]
            /\ Completed(f, <<>>)
       ELSE /\ pc' = [pc EXCEPT ![t] = "clear"]
            /\ pass' = [pass EXCEPT ![t] = 1]
            /\ UNCHANGED history
    /\ UNCHANGED <<graphVars, entryBarriers, exitBarriers>>

\* PassRuntime::execute lines 28-29
Clear(t) ==
    /\ pc[t] = "clear"
    /\ entryBarriers' = [entryBarriers EXCEPT ![pass[t]] = ClearScratch(@)]
    /\ exitBarriers' = [exitBarriers EXCEPT ![pass[t]] = ClearScratch(@)]
    /\ idx' = [idx EXCEPT ![t] = 1]
    /\ pc' = [pc EXCEPT ![t] = StatementAfter("clear")]
    /\ Interfere(t)
    /\ UNCHANGED <<graphVars, runtimeFrame, pass, frameIndex, cmdList, ret, history>>

\* mutant: the loop advances the record it visited to its mid state
PopulateAdvancing(t) ==
    /\ pc[t] = "populate"
    /\ idx[t] <= Len(transitions[pass[t]])
    /\ LET rt == transitions[pass[t]][idx[t]]
       IN  /\ \A r \in ResolvedBy(rt) : Runtime_knows(r)
           /\ entryBarriers' = [entryBarriers EXCEPT ![pass[t]] = PushEntry(@, rt)]
           /\ exitBarriers' = [exitBarriers EXCEPT ![pass[t]] = PushExit(@, rt)]
           /\ transitions' = [transitions EXCEPT ![pass[t]][idx[t]].beg = rt.mid]
    /\ idx' = [idx EXCEPT ![t] = @ + 1]
    /\ Interfere(t)
    /\ UNCHANGED <<extInit, extFinal, usages, resources, known, runtimeFrame, pc,
                   pass, frameIndex, cmdList, ret, history>>

\* PassRuntime::execute lines 31-44, one iteration of the loop (execute is
\* const: the records and the usage map are read only)
Populate(t) ==
    /\ pc[t] = "populate"
    /\ idx[t] <= Len(transitions[pass[t]])
    /\ LET rt == transitions[pass[t]][idx[t]]
       IN  /\ \A r \in ResolvedBy(rt) : Runtime_knows(r)
           /\ entryBarriers' = [entryBarriers EXCEPT ![pass[t]] = PushEntry(@, rt)]
           /\ exitBarriers' = [exitBarriers EXCEPT ![pass[t]] = PushExit(@, rt)]
    /\ idx' = [idx EXCEPT ![t] = @ + 1]
    /\ Interfere(t)
    /\ UNCHANGED <<graphVars, runtimeFrame, pc, pass, frameIndex, cmdList, ret, history>>

\* PassRuntime::execute lines 36 and 42: the Runtime cannot resolve the
\* resource of the record; the exception leaves the loop and execute
PopulateFail(t) ==
    /\ pc[t] = "populate"
    /\ idx[t] <= Len(transitions[pass[t]])
    /\ \E r \in ResolvedBy(transitions[pass[t]][idx[t]]) :
           /\ ~Runtime_knows(r)
           /\ ret' = [ret EXCEPT ![t] = [call |-> "resolve", res |-> r,
                                         outcome |-> "throw", value |-> NoValue]]
    /\ pc' = [pc EXCEPT ![t] = "failed"]
    /\ Interfere(t)
    /\ UNCHANGED <<graphVars, entryBarriers, exitBarriers, runtimeFrame, pass, idx,
                   frameIndex, cmdList, history>>

\* PassRuntime::execute line 31, loop exit
PopulateDone(t) ==
    /\ pc[t] = "populate"
    /\ idx[t] > Len(transitions[pass[t]])
    /\ pc' = [pc EXCEPT ![t] = StatementAfter("populate")]
    /\ Interfere(t)
    /\ UNCHANGED <<graphVars, entryBarriers, exitBarriers, runtimeFrame, pass, idx,
                   frameIndex, cmdList, ret, history>>

\* PassRuntime::execute lines 46-51
EntryBatch(t) ==
    /\ pc[t] = "entry"
    /\ cmdList' = [cmdList EXCEPT ![t] = SubmitEntry(@, entryBarriers[pass[t]], pass[t])]
    /\ pc' = [pc EXCEPT ![t] = StatementAfter("entry")]
    /\ Interfere(t)
    /\ UNCHANGED <<graphVars, entryBarriers, exitBarriers, runtimeFrame, pass, idx,
                   frameIndex, ret, history>>

\* what the caller-supplied body may ask of its PassContext
BodyCalls(p, f) ==
    {NoCall, PassContext_getFrameIndex(f)}
        \cup {PassContext_getDescriptor(p, r) : r \in Resources}
        \cup {PassContext_getRawResource(p, r) : r \in Resources}

\* PassRuntime::execute lines 53-57: the body runs; an exception it does not
\* catch leaves execute and Runtime.execute
Body(t) ==
    /\ pc[t] = "body"
    /\ \E c \in BodyCalls(pass[t], frameIndex[t]) :
         /\ ret' = [ret EXCEPT ![t] = c]
         /\ pc' = [pc EXCEPT ![t] = AfterCallback(c, pass[t])]
    /\ cmdList' = [cmdList EXCEPT ![t] = InvokeCallback(@, pass[t])]
    /\ Interfere(t)
    /\ UNCHANGED <<graphVars, entryBarriers, exitBarriers, runtimeFrame, pass, idx,
                   frameIndex, history>>

\* Runtime.execute: the pass after p, 0 when p was the last one
NextPass(p) == IF p < Len(transitions) THEN p + 1 ELSE 0

\* PassRuntime::execute lines 59-64, then back in the Runtime's pass loop
ExitBatch(t) ==
    /\ pc[t] = "exit"
    /\ LET log == SubmitExit(cmdList[t], exitBarriers[pass[t]], pass[t])
           nxt == NextPass(pass[t])
       IN  /\ cmdList' = [cmdList EXCEPT ![t] = log]
           /\ IF nxt # 0
              THEN /\ pass' = [pass EXCEPT ![t] = nxt]
                   /\ pc' = [pc EXCEPT ![t] = "clear"]
                   /\ UNCHANGED history
              ELSE /\ pc' = [pc EXCEPT ![t] = "done"]
                   /\ Completed(frameIndex[t], log)
                   /\ UNCHANGED pass
    /\ ret' = [ret EXCEPT ![t] = NoCall]
    /\ Interfere(t)
    /\ UNCHANGED <<graphVars, entryBarriers, exitBarriers, runtimeFrame, idx, frameIndex>>

Step(t) ==
    \/ \E f \in Frames : RuntimeExecute(t, f)
    \/ Clear(t)
    \/ Populate(t)
    \/ PopulateDone(t)
    \/ EntryBatch(t)
    \/ Body(t)
    \/ ExitBatch(t)

\* one caller at a time: frame executions are serialized
Next == \E t \in SerialCallers : Step(t)

Spec == Init /\ [][Next]_vars

\* one PassRuntime with an arbitrary transition list, calls serialized
PassSpec == InitPass /\ [][Next]_vars

\* two callers racing on the same PassRuntime, each with its own recorder and
\* each making one call whose body asks nothing of its PassContext
\* (the unsynchronized accesses to the scratch vectors are a data race; the
\* interleavings of whole statements taken here are among its outcomes)
StepConc(t) ==
    \/ \E f \in Frames : pc[t] = "idle" /\ RuntimeExecute(t, f)
    \/ Clear(t)
    \/ Populate(t)
    \/ PopulateDone(t)
    \/ EntryBatch(t)
    \/ Body(t) /\ ret'[t] = NoCall
    \/ ExitBatch(t)

NextConc == \E t \in Threads : StepConc(t)

ConcSpec == InitRace /\ [][NextConc]_vars

\* one PassRuntime on a Runtime that may not know every resource index; the
\* body asks nothing of its PassContext
StepResolve(t) ==
    \/ \E f \in Frames : RuntimeExecute(t, f)
    \/ Clear(t)
    \/ Populate(t)
    \/ PopulateFail(t)
    \/ PopulateDone(t)
    \/ EntryBatch(t)
    \/ Body(t) /\ ret'[t] = NoCall
    \/ ExitBatch(t)

NextResolve == \E t \in SerialCallers : StepResolve(t)

ResolveSpec == InitResolve /\ [][NextResolve]_vars

\* ======================================================================
\* Properties
\* ======================================================================
\* the serialized caller
Caller == CHOOSE t \in SerialCallers : TRUE

Log == cmdList[Caller]

SideRank(side) == CASE side = "entry" -> 1 [] side = "body" -> 2 [] OTHER -> 3

\* positions of execute at which the entry submission (lines 46-51) is over
AfterEntry == {"body", "exit", "done", "failed"}

\* positions of execute at which the population loop (lines 31-44) is over
AfterPopulate == {"entry"} \cup AfterEntry

SidesOf(log, side) == SelectSeq(log, LAMBDA e : e.side = side)

\* a barrier without the frame of its physical handle
Logical(b) ==
    [resource |-> b.resource[2], before |-> b.before, after |-> b.after,
     subrsc |-> b.subrsc]

LogicalBatch(batch) == [i \in DOMAIN batch |-> Logical(batch[i])]

\* the beg -> mid barriers of the transitions with beg # mid, in list order
RECURSIVE EntryOf(_)
EntryOf(ts) ==
    IF ts = <<>> THEN <<>>
    ELSE (IF Head(ts).beg # Head(ts).mid
          THEN <<[resource |-> Head(ts).resource, before |-> Head(ts).beg,
                  after |-> Head(ts).mid, subrsc |-> Head(ts).subrsc]>>
          ELSE <<>>) \o EntryOf(Tail(ts))

\* the mid -> end barriers of the transitions with mid # end, in list order
RECURSIVE ExitOf(_)
ExitOf(ts) ==
    IF ts = <<>> THEN <<>>
    ELSE (IF Head(ts).mid # Head(ts).end
          THEN <<[resource |-> Head(ts).resource, before |-> Head(ts).mid,
                  after |-> Head(ts).end, subrsc |-> Head(ts).subrsc]>>
          ELSE <<>>) \o ExitOf(Tail(ts))

\* C1: within one execute call the recorder receives the pass's commands in
\* the order entry batch, body, exit batch: of two commands of the same pass
\* the earlier one never belongs to a later stage, an exit batch is preceded
\* by the body and no entry batch follows the body.
C1_EntryBodyExitOrder ==
    \A i, j \in DOMAIN Log :
        (i < j /\ Log[i].pass = Log[j].pass) =>
            /\ SideRank(Log[i].side) < SideRank(Log[j].side)
            /\ Log[j].side = "exit" =>
                   \E k \in 1..(j - 1) : Log[k].side = "body" /\ Log[k].pass = Log[j].pass

C1_Witness ==
    /\ pc[Caller] = "done"
    /\ Len(Log) = 3
    /\ Log[1].side = "entry" /\ Log[2].side = "body" /\ Log[3].side = "exit"

\* C2: one execute call submits at most one entry batch and one exit batch;
\* a batch is submitted exactly when its scratch list is non-empty and then
\* holds the whole list, so no batch is empty and no side is split.
C2_AtMostTwoBatches ==
    LET ent == SidesOf(Log, "entry")
        ext == SidesOf(Log, "exit")
    IN  /\ Len(ent) <= 1 /\ Len(ext) <= 1
        /\ \A i \in DOMAIN Log : Log[i].kind = "barrier" => Log[i].batch # <<>>
        /\ pc[Caller] \in AfterEntry =>
               /\ (Len(ent) = 1) <=> (entryBarriers[1] # <<>>)
               /\ Len(ent) = 1 => ent[1].batch = entryBarriers[1]
        /\ pc[Caller] = "done" =>
               /\ (Len(ext) = 1) <=> (exitBarriers[1] # <<>>)
               /\ Len(ext) = 1 => ext[1].batch = exitBarriers[1]

C2_Witness ==
    /\ pc[Caller] = "done"
    /\ Len(entryBarriers[1]) = 2
    /\ exitBarriers[1] = <<>>
    /\ Len(Batches(Log)) = 1
    /\ Len(Log[1].batch) = 2

\* C3: the entry list built by execute is exactly the beg -> mid barriers of
\* the stored transitions with beg # mid and the exit list exactly the
\* mid -> end barriers of those with mid # end, both in stored order; the
\* submitted batches are these lists and no barrier has before = after.
C3_BatchesAreFilteredTransitions ==
    /\ pc[Caller] \in AfterPopulate =>
           /\ LogicalBatch(entryBarriers[1]) = EntryOf(transitions[1])
           /\ LogicalBatch(exitBarriers[1]) = ExitOf(transitions[1])
    /\ \A i \in DOMAIN Log :
           /\ Log[i].side = "entry" => LogicalBatch(Log[i].batch) = EntryOf(transitions[1])
           /\ Log[i].side = "exit" => LogicalBatch(Log[i].batch) = ExitOf(transitions[1])
           /\ \A k \in DOMAIN Log[i].batch : Log[i].batch[k].before # Log[i].batch[k].after

C3_Witness ==
    /\ pc[Caller] = "done"
    /\ Len(transitions[1]) = 2
    /\ transitions[1][1].beg = transitions[1][1].mid
    /\ transitions[1][1].mid # transitions[1][1].end
    /\ transitions[1][2].beg # transitions[1][2].mid
    /\ transitions[1][2].mid # transitions[1][2].end
    /\ Len(SidesOf(Log, "entry")[1].batch) = 1
    /\ Len(SidesOf(Log, "exit")[1].batch) = 2

\* the resource of the body's last PassContext call is not in the usage set
\* registered for the pass
UndeclaredCall(name) ==
    /\ ret[Caller].call = name
    /\ ret[Caller].res \notin DOMAIN resources[pass[Caller]]

\* C4: getDescriptor for a resource outside the pass's registered usage set
\* fails with the undeclared-resource-usage exception and yields no descriptor.
C4_GetDescriptorUndeclaredThrows ==
    UndeclaredCall("getDescriptor") =>
        /\ ret[Caller].outcome = "throw"
        /\ ret[Caller].value = NoValue
        /\ pc[Caller] = "failed"

C4_Witness ==
    /\ UndeclaredCall("getDescriptor")
    /\ pc[Caller] = "failed"
    /\ pass[Caller] = 2
    /\ resources[1] # resources[2]

RecordsOf(r) ==
    Concat([p \in 1..Len(transitions) |->
               SelectSeq(transitions[p], LAMBDA rt : rt.resource = r)])

\* C6: for every resource the transition records of a compiled graph form a
\* chain over the passes that touch it, in declared order: each touching pass
\* has one record whose mid is its required state, the first beg is the
\* external initial state, each end is the beg of the next record and the
\* last end is the external final state when one is declared.
C6_TransitionChain ==
    \A r \in Resources :
        LET recs == RecordsOf(r)
        IN  /\ \A p \in 1..Len(transitions) :
                   LET own == SelectSeq(transitions[p], LAMBDA rt : rt.resource = r)
                   IN  IF usages[p][r] = NoState THEN own = <<>>
                       ELSE Len(own) = 1 /\ own[1].mid = usages[p][r]
            /\ recs # <<>> => recs[1].beg = extInit[r]
            /\ \A k \in 1..(Len(recs) - 1) : recs[k].end = recs[k + 1].beg
            /\ (recs # <<>> /\ extFinal[r] # NoState) => recs[Len(recs)].end = extFinal[r]

C6_Witness ==
    \E r \in Resources :
        LET recs == RecordsOf(r)
        IN  /\ Len(recs) = 2
            /\ extFinal[r] # NoState
            /\ recs[1].beg # recs[1].mid
            /\ recs[1].mid # recs[2].mid
            /\ recs[2].end # recs[2].mid
            /\ pc[Caller] = "done"

Bodies == SidesOf(Log, "body")

\* C7: Runtime.execute runs the compiled passes once each in declared order:
\* the bodies recorded so far are those of passes 1, 2, ... without gap or
\* repetition, no command of a pass follows a command of a later pass, a
\* call in progress can always take its next step, and a completed call has
\* run every pass.
C7_PassesOnceInOrder ==
    /\ \A i \in DOMAIN Bodies : Bodies[i].pass = i
    /\ \A i, j \in DOMAIN Log : i < j => Log[i].pass <= Log[j].pass
    /\ pc[Caller] \in {"clear", "populate", "entry", "body"} =>
           Len(Bodies) = pass[Caller] - 1
    /\ pc[Caller] \in {"exit", "failed"} => Len(Bodies) = pass[Caller]
    /\ pc[Caller] = "done" => Len(Bodies) = Len(transitions)
    /\ InFlight(Caller) => pass[Caller] \in 1..Len(transitions) /\ ENABLED Step(Caller)

C7_Witness ==
    /\ pc[Caller] = "done"
    /\ Len(transitions) = NumPasses
    /\ Len(Bodies) = NumPasses
    /\ \E i \in DOMAIN Log : Log[i].side = "entry" /\ Log[i].pass = 1
    /\ \E i \in DOMAIN Log : Log[i].side = "exit" /\ Log[i].pass = 1
    /\ \E i \in DOMAIN Log : Log[i].side = "exit" /\ Log[i].pass = 2

\* C8: an execution that completes for a frame index submits the same
\* sequence of barrier batches as any earlier completed execution for that
\* frame index (the reference), whatever executions ran before or between.
C8_SameFrameSameBatches ==
    (pc[Caller] = "done" /\ history.set /\ history.frame = frameIndex[Caller]) =>
        history.log = Batches(Log)

C8_Witness ==
    /\ pc[Caller] = "done"
    /\ history.again
    /\ history.frame = frameIndex[Caller]
    /\ runtimeFrame = frameIndex[Caller]
    /\ \E i \in DOMAIN Log : Log[i].side = "entry"
    /\ \E i \in DOMAIN Log : Log[i].side = "exit"

\* batch of logical barriers bound to the physical instances of frame f
Bound(batch, f) ==
    [i \in DOMAIN batch |->
        Transition(Handle(batch[i].resource, f), batch[i].before, batch[i].after,
                   batch[i].subrsc)]

\* what one call of execute on the single pass submits when it runs alone
SoloLog(f) ==
    LET ent == Bound(EntryOf(transitions[1]), f)
        ext == Bound(ExitOf(transitions[1]), f)
        body == <<[kind |-> "body", pass |-> 1, side |-> "body", batch |-> <<>>]>>
    IN  (IF ent # <<>>
         THEN <<[kind |-> "barrier", pass |-> 1, side |-> "entry", batch |-> ent]>>
         ELSE <<>>)
        \o body
        \o (IF ext # <<>>
            THEN <<[kind |-> "barrier", pass |-> 1, side |-> "exit", batch |-> ext]>>
            ELSE <<>>)

Differs(t) == pc[t] = "done" /\ cmdList[t] # SoloLog(frameIndex[t])

\* C9: two execute calls on the same PassRuntime are unsafe only through
\* their overlap: a completed call whose recorder received something else
\* than the call submits alone was running while the other caller stepped
\* (the witness is such a call, both callers using the same frame index).
C9_DiffersOnlyWhenInterfered ==
    \A t \in Threads : Differs(t) => interfered[t]

C9_Witness ==
    /\ \E t \in Threads : Differs(t)
    /\ frameIndex[1] = frameIndex[2]
    /\ \A t \in Threads : pc[t] # "idle"

\* resource r goes from state a to b in pass 1 and back to a in pass 2
BackAndForth(r, a, b) ==
    /\ Len(usages) = 2
    /\ a # b
    /\ extInit[r] = a
    /\ usages[1][r] = b
    /\ usages[2][r] = a
    /\ extFinal[r] \in {a, NoState}

LogicalLog(log) ==
    [i \in DOMAIN log |->
        [pass |-> log[i].pass, side |-> log[i].side, batch |-> LogicalBatch(log[i].batch)]]

\* C10: for a resource taken from A to B by pass 1 and back to A by pass 2
\* an execution produces exactly two barrier batches for it: pass 1's entry
\* batch A -> B and pass 1's exit batch B -> A; pass 2 gets no barrier.
C10_BackAndForthTwoBatches ==
    \A r \in UsedResources : \A a, b \in States :
        (BackAndForth(r, a, b) /\ pc[Caller] = "done") =>
            LogicalLog(Batches(Log)) =
                <<[pass |-> 1, side |-> "entry",
                   batch |-> <<[resource |-> r, before |-> a, after |-> b,
                                subrsc |-> AllSubresources]>>],
                  [pass |-> 1, side |-> "exit",
                   batch |-> <<[resource |-> r, before |-> b, after |-> a,
                                subrsc |-> AllSubresources]>>]>>

C10_Witness ==
    /\ \E r \in UsedResources :
           /\ BackAndForth(r, "COMMON", "RENDER_TARGET")
           /\ extFinal[r] = "COMMON"
    /\ pc[Caller] = "done"
    /\ Len(Batches(Log)) = 2

\* the barriers of a batch that name resource r
BarriersFor(batch, r) == SelectSeq(batch, LAMBDA b : b.resource[2] = r)

\* passes p and p + 1 both use resource r, in the same required state
SameStateInARow(r, p) ==
    /\ p + 1 <= Len(usages)
    /\ usages[p][r] # NoState
    /\ usages[p + 1][r] = usages[p][r]

\* C11: when a resource is used with the same required state in two
\* consecutive passes, the entry list the second pass builds and the entry
\* batch it submits hold no barrier for that resource.
C11_NoEntryBarrierForSameState ==
    \A r \in Resources : \A p \in 1..Len(usages) :
        SameStateInARow(r, p) =>
            /\ (pass[Caller] = p + 1 /\ pc[Caller] \in AfterPopulate) =>
                   BarriersFor(entryBarriers[p + 1], r) = <<>>
            /\ \A i \in DOMAIN Log :
                   (Log[i].pass = p + 1 /\ Log[i].side = "entry") =>
                       BarriersFor(Log[i].batch, r) = <<>>

C11_Witness ==
    /\ pc[Caller] = "done"
    /\ \E r \in Resources :
           /\ SameStateInARow(r, 1)
           /\ extInit[r] # usages[1][r]
           /\ extFinal[r] \notin {NoState, usages[1][r]}
    /\ Len(Bodies) = 2
    /\ Len(Batches(Log)) = 2

\* the barriers of a batch are bound to the physical instances of frame f
BoundTo(batch, f) ==
    \A k \in DOMAIN batch : batch[k].resource = Handle(batch[k].resource[2], f)

DescriptorNotFetched(c) ==
    /\ pass[Caller] # 0
    /\ DOMAIN resources[pass[Caller]] # {}
    /\ c.call # "getDescriptor"

\* C13: a pass that declared a usage with a descriptor and whose body never
\* calls getDescriptor executes successfully: the body returns into the exit
\* submission, and the recorder receives the entry batch, the body and the
\* exit batch of the pass, the same as for a body that fetched.
C13_UnfetchedDescriptorIsFine ==
    [][/\ (pc[Caller] = "body" /\ DescriptorNotFetched(ret'[Caller])) =>
              /\ pc'[Caller] = "exit"
              /\ Log' = Append(Log, [kind |-> "body", pass |-> pass[Caller],
                                     side |-> "body", batch |-> <<>>])
       /\ (pc[Caller] = "exit" /\ DescriptorNotFetched(ret[Caller])) =>
              /\ pc'[Caller] = "done"
              /\ Log' = SoloLog(frameIndex[Caller])]_vars

C13_Witness ==
    /\ pc[Caller] = "exit"
    /\ DescriptorNotFetched(ret[Caller])
    /\ DOMAIN resources[1] = Resources
    /\ Len(Log) = 2
    /\ Len(Log[1].batch) = 2
    /\ exitBarriers[1] # <<>>

\* every transition record of pass p has beg = mid = end (or there is none)
Quiet(p) ==
    \A k \in DOMAIN transitions[p] :
        /\ transitions[p][k].beg = transitions[p][k].mid
        /\ transitions[p][k].mid = transitions[p][k].end

\* the body of pass p has run in the current execution
PastBody(p) ==
    \/ pass[Caller] > p
    \/ pass[Caller] = p /\ pc[Caller] \in {"exit", "done", "failed"}

\* C14: executing a graph of zero passes submits nothing to the recorder, and
\* a pass whose transitions all have beg = mid = end (or that has none)
\* submits no barrier command: of that pass only the body is recorded.
C14_QuietPassSubmitsNoBarrier ==
    /\ Len(transitions) = 0 => Log = <<>> /\ pc[Caller] \in {"idle", "done"}
    /\ \A p \in DOMAIN transitions :
           Quiet(p) =>
               LET mine == SelectSeq(Log, LAMBDA e : e.pass = p)
               IN  /\ Batches(mine) = <<>>
                   /\ PastBody(p) =>
                          mine = <<[kind |-> "body", pass |-> p, side |-> "body",
                                    batch |-> <<>>]>>

C14_Witness ==
    /\ pc[Caller] = "done"
    /\ \E p \in DOMAIN transitions :
           /\ transitions[p] # <<>>
           /\ Quiet(p)
           /\ \E i \in DOMAIN Log : Log[i].kind = "barrier" /\ Log[i].pass # p
    /\ Len(Bodies) = Len(transitions)

\* C15: execute leaves the compiled pass as it was (its transition records
\* and its descriptor map), for any number of calls and frame indices: every
\* step of every execution changes at most the scratch lists, the recorder
\* and the position of the call.
C15_CompiledPassUnchanged ==
    [][/\ transitions' = transitions
       /\ resources' = resources
       /\ UNCHANGED <<extInit, extFinal, usages>>]_vars

C15_Witness ==
    /\ pc[Caller] = "done"
    /\ history.again
    /\ frameIndex[Caller] = MaxFrame
    /\ Len(transitions[1]) = MaxTrans
    /\ Len(Log) = 3
    /\ DOMAIN resources[1] = Resources

\* the state the submitted barriers leave resource r in, from its external
\* initial state
TrackedState(r) ==
    LET mine == BarriersFor(Concat([i \in DOMAIN Log |-> Log[i].batch]), r)
    IN  IF mine = <<>> THEN extInit[r] ELSE mine[Len(mine)].after

\* C16: when the body of pass p fails, the failure leaves execute: the pass
\* loop stops there, the entry batch of p is already submitted, the body is
\* the last thing recorded and no exit batch of p is submitted, so every
\* resource of p is left in its mid state, not in the end state that the beg
\* of the next pass assumes.
C16_BodyFailureSkipsExit ==
    ret[Caller].outcome = "throw" =>
        LET p == pass[Caller]
            ent == Bound(EntryOf(transitions[p]), frameIndex[Caller])
            mine == SelectSeq(Log, LAMBDA e : e.pass = p)
        IN  /\ pc[Caller] = "failed"
            /\ Log # <<>> /\ Log[Len(Log)].kind = "body" /\ Log[Len(Log)].pass = p
            /\ SidesOf(mine, "exit") = <<>>
            /\ ent # <<>> =>
                   mine = <<[kind |-> "barrier", pass |-> p, side |-> "entry",
                             batch |-> ent], Log[Len(Log)]>>
            /\ ent = <<>> => Len(mine) = 1
            /\ \A k \in DOMAIN transitions[p] :
                   TrackedState(transitions[p][k].resource) = transitions[p][k].mid

C16_Witness ==
    /\ pc[Caller] = "failed"
    /\ ret[Caller].outcome = "throw"
    /\ pass[Caller] = 1
    /\ Len(transitions) = 2
    /\ \E r \in Resources :
           /\ RecordsOf(r) # <<>>
           /\ Len(RecordsOf(r)) = 2
           /\ RecordsOf(r)[1].beg # RecordsOf(r)[1].mid
           /\ RecordsOf(r)[1].mid # RecordsOf(r)[1].end
           /\ RecordsOf(r)[2].beg # TrackedState(r)

\* C18: getDescriptor for a resource of the usage set registered for the
\* pass succeeds and returns the descriptor of the slot registered for that
\* resource index in that pass, never the slot of another resource or pass,
\* and the lookup leaves the usage set as it was.
C18_GetDescriptorDeclared ==
    [][(/\ pc[Caller] = "body"
        /\ ret'[Caller].call = "getDescriptor"
        /\ ret'[Caller].res \in DOMAIN resources[pass[Caller]]) =>
           /\ ret'[Caller].outcome = "ok"
           /\ ret'[Caller].value = Descriptor(pass[Caller], ret'[Caller].res)
           /\ \A q \in Resources \ {ret'[Caller].res} :
                  ret'[Caller].value # Descriptor(pass[Caller], q)
           /\ resources' = resources]_vars

C18_Witness ==
    /\ pc[Caller] = "exit"
    /\ ret[Caller].call = "getDescriptor"
    /\ ret[Caller].outcome = "ok"
    /\ DOMAIN resources[pass[Caller]] = Resources
    /\ \E r \in Resources : \E q \in Resources :
           q < r /\ ret[Caller].res = r /\ ret[Caller].value = Descriptor(pass[Caller], r)

\* the record needs a barrier on one side at least
NeedsBarrier(rt) == NeedsEntry(rt) \/ NeedsExit(rt)

\* what the recorder received of pass p
RecordedOf(p) == SelectSeq(Log, LAMBDA e : e.pass = p)

\* C17 as stated: execute resolves the handle of every transition before it
\* submits anything, so a pass with a transition whose resource cannot be
\* resolved records nothing, neither a batch nor its body.
C17_AllTransitionsResolved ==
    \A p \in DOMAIN transitions :
        (\E k \in DOMAIN transitions[p] : ~Runtime_knows(transitions[p][k].resource))
            => RecordedOf(p) = <<>>

\* C17: execute resolves the handle of every transition that needs a barrier
\* (beg # mid or mid # end) before it submits anything; a transition with
\* beg = mid = end is not resolved. When a resolution fails the error leaves
\* execute at that record: nothing of the pass is recorded, neither a batch
\* nor the body, and the loop neither goes on nor tries again.
C17_ResolveFailureBeforeSubmission ==
    /\ \A p \in DOMAIN transitions :
           (\E k \in DOMAIN transitions[p] :
                /\ NeedsBarrier(transitions[p][k])
                /\ ~Runtime_knows(transitions[p][k].resource))
               => /\ RecordedOf(p) = <<>>
                  /\ pass[Caller] = p => pc[Caller] \notin {"entry", "body", "exit", "done"}
    /\ ret[Caller].call = "resolve" =>
           LET p == pass[Caller]
               k == idx[Caller]
           IN  /\ pc[Caller] = "failed"
               /\ ret[Caller].outcome = "throw"
               /\ k \in DOMAIN transitions[p]
               /\ NeedsBarrier(transitions[p][k])
               /\ transitions[p][k].resource = ret[Caller].res
               /\ ~Runtime_knows(ret[Caller].res)
               /\ \A j \in 1..(k - 1) :
                      NeedsBarrier(transitions[p][j]) =>
                          Runtime_knows(transitions[p][j].resource)
               /\ RecordedOf(p) = <<>>

C17_Witness ==
    /\ pc[Caller] = "failed"
    /\ ret[Caller].call = "resolve"
    /\ idx[Caller] = 2
    /\ entryBarriers[1] # <<>>
    /\ exitBarriers[1] # <<>>
    /\ frameIndex[Caller] = MaxFrame
    /\ Log = <<>>

====
